---- MODULE Spec2Model ----
(***************************************************************************)
(* Model of the ensemble price-forecasting engine of                       *)
(* src/src/lib/predictionModels.ts.                                        *)
(*                                                                         *)
(* JavaScript numbers are modelled in fixed point.  A rate (trend,         *)
(* volatility, daily change, random draw, confidence) r is the integer     *)
(* r * SCALE; a price is an integer number of currency units; a model's    *)
(* confidence weight is an integer number of hundredths.  Every division   *)
(* rounds toward zero, the way each floating-point operation rounds once.  *)
(* NaN is a sentinel that every arithmetic operation propagates.           *)
(* Math.random is a process-wide generator with a state, rng: a draw       *)
(* returns a function of the state and advances it.                        *)
(***************************************************************************)
EXTENDS Integers, Sequences, FiniteSets, TLC

VARIABLES
    models,            \* EnsembleModel.models of the instance in use
    rng,               \* state of the generator behind Math.random
    historicalPrices,  \* argument of the last predict call
    callDays,          \* argument `days` of the last predict call
    callVf,            \* argument `volatilityFactor` of the last predict call
    callSeed,          \* rng when the last predict call began
    callModels,        \* models when the last predict call began
    outcome,           \* "none" | "returned" | "threw": how the last call ended
    modelsRun,         \* how many model.predict calls of the last call returned
    modelPredictions,  \* the local modelPredictions of the last predict call
    estimates,         \* the trend / volatility locals of the five predicts
    results,           \* the PredictionResult[] the last predict call returned
    contributions,     \* what getModelContributions last returned
    replayed,          \* the last predict call repeated the call before it
    rngAfter,          \* rng after each model.predict of the last predict call
    dayLocals,         \* the locals of each pass of the last call's loop over days
    contributionModels, \* the models the last getModelContributions call mapped
    priceArray,        \* the array passed to the last predict call: as each
                       \* model.predict received it, and after the call
    generateArgs,      \* arguments of the last generatePredictionData call
    data,              \* what generatePredictionData last returned
    predictionSection, \* props and state of the PredictionSection component
    inFlight,          \* getSentimentPriceImpact calls that have not settled
    settled,           \* the getSentimentPriceImpact call that settled last
    transformerModel,  \* the fields of the TransformerModel of transformerModel.ts
    promises,          \* the promises its loadModel and predict calls made
    suspended,         \* its predict calls waiting at `await this.loadModel()`
    predictionChart    \* the mounted PredictionChart: its outstanding
                       \* fetchDataAndPredict calls, its chartData and the
                       \* arguments chartData was generated with

moduleVars == <<generateArgs, data>>
sectionVars == <<predictionSection, inFlight, settled>>
transformerVars == <<transformerModel, promises, suspended>>
chartVars == <<predictionChart>>

vars == <<models, rng, historicalPrices, callDays, callVf, callSeed, callModels,
          outcome, modelsRun, modelPredictions, estimates, results,
          contributions, replayed, rngAfter, dayLocals, contributionModels,
          priceArray, moduleVars, sectionVars, transformerVars, chartVars>>

----------------------------------------------------------------------------
(* Bounds of the model *)

MaxDays == 3
RngModulus == 8
BasePrice == 30000
MaxArticles == 2
MaxInFlight == 2
MaxPromises == 5
MaxFetches == 2

----------------------------------------------------------------------------
(* Fixed-point arithmetic *)

SCALE == 10^4
NaN == 0 - 2^30

Max(a, b) == IF a >= b THEN a ELSE b

\* a / b rounded toward zero (b # 0)
TDiv(a, b) ==
    LET q == (IF a >= 0 THEN a ELSE 0 - a) \div (IF b >= 0 THEN b ELSE 0 - b)
    IN IF (a >= 0) = (b > 0) THEN q ELSE 0 - q

RECURSIVE IsqrtSearch(_, _, _)
IsqrtSearch(n, lo, hi) ==
    IF lo >= hi THEN lo
    ELSE LET mid == (lo + hi + 1) \div 2
         IN IF mid * mid <= n THEN IsqrtSearch(n, mid, hi)
            ELSE IsqrtSearch(n, lo, mid - 1)

\* Math.sqrt on a value of scale s^2, giving a value of scale s
Sqrt(n) == IF n = NaN THEN NaN ELSE IsqrtSearch(n, 0, IF n < 46340 THEN n ELSE 46340)

\* Math.exp(0.1 * i) in hundredths, i = 1..40
ExpTable == <<111, 122, 135, 149, 165, 182, 201, 223, 246, 272,
              300, 332, 367, 406, 448, 495, 547, 605, 669, 739,
              817, 903, 997, 1102, 1218, 1346, 1488, 1644, 1817, 2009,
              2220, 2453, 2711, 2996, 3312, 3660, 4045, 4470, 4940, 5460>>
ExpWeight(i) == ExpTable[i]

\* Math.sin((k * Math.PI) / 3.5) * SCALE, k = 0..6
SinWeekTable == <<0, 7818, 9749, 4339, -4339, -9749, -7818>>
\* Math.sin((i * Math.PI) / 7) * SCALE, by i mod 14
SinHalfTable == <<0, 4339, 7818, 9749, 9749, 7818, 4339,
                  0, -4339, -7818, -9749, -9749, -7818, -4339>>

\* Math.tanh(x), x and the result of scale SCALE: the Pade approximant
\* x (27 + x^2) / (27 + 9 x^2), saturated beyond |x| >= 3
Tanh(x) ==
    IF x >= 3 * SCALE THEN SCALE
    ELSE IF x <= 0 - 3 * SCALE THEN 0 - SCALE
    ELSE LET xm == TDiv(x, 10)
             sq == (xm * xm) \div 1000
         IN TDiv(x * (27000 + sq), 27000 + 9 * sq)

----------------------------------------------------------------------------
(* Math.random *)

\* The state of Math.random replaced by a test double that returns, at each
\* call site, the value the site subtracts from the draw, so that every noise
\* term (Math.random() - c) is zero.
ZeroNoise == 0 - 1

\* the value a draw returns in state s: a rate in [0, 1)
Random(s) == (s * SCALE) \div RngModulus
\* the generator's state after a draw
NextRng(s) == IF s = ZeroNoise THEN s ELSE (5 * s + 3) % RngModulus
\* (Math.random() - centre) in state s
Noise(s, centre) == IF s = ZeroNoise THEN 0 ELSE Random(s) - centre

----------------------------------------------------------------------------
(* Statistics shared by the models *)

\* (prices[i] - prices[i - 1]) / prices[i - 1], i a 1-based index >= 2
DailyReturn(prices, i) == TDiv((prices[i] - prices[i - 1]) * SCALE, prices[i - 1])

\* Array.prototype.slice(-n)
SliceLast(prices, n) ==
    IF Len(prices) <= n THEN prices
    ELSE SubSeq(prices, Len(prices) - n + 1, Len(prices))

\* mutant: the blend weight without its floor
TrendWeightNoFloor(i) == 100 - i * 5

\* mutant: Array.prototype.splice(-n), which removes from the array the
\* elements it returns
ReceiverAfterSplice(prices, n) ==
    IF Len(prices) <= n THEN <<>> ELSE SubSeq(prices, 1, Len(prices) - n)

\* the array prices.slice(-n) was called on, after the call: slice copies
ReceiverAfterSlice(prices, n) == prices

RECURSIVE SeqSum(_)
\* values.reduce((sum, val) => sum + val, 0)
SeqSum(s) == IF Len(s) = 0 THEN 0 ELSE s[1] + SeqSum(Tail(s))

\* the returns array: (prices[i] - prices[i - 1]) / prices[i - 1] for i = 1..length-1
Returns(prices) == [i \in 1..(Len(prices) - 1) |-> DailyReturn(prices, i + 1)]

\* mutant: lastPrice kept on the instance, so that a forecast starts from the
\* last price of the forecast before it
StartPriceCarriedOver(prices) ==
    IF results # <<>> THEN results[Len(results)].predicted
    ELSE IF Len(prices) = 0 THEN NaN ELSE prices[Len(prices)]

\* the first price of the call: historicalPrices[historicalPrices.length - 1]
StartPrice(prices) == IF Len(prices) = 0 THEN NaN ELSE prices[Len(prices)]

\* lastPrice * (1 + rate)
StepPrice(lastPrice, rate) ==
    IF lastPrice = NaN THEN NaN ELSE TDiv(lastPrice * (SCALE + rate), SCALE)

----------------------------------------------------------------------------
(* TransformerModel *)

RECURSIVE WeightedReturnSum(_, _, _)
\* the loop of calculateTrend from i (0-based) on: the sum of dailyReturn * weight
WeightedReturnSum(recentPrices, i, n) ==
    IF i >= n THEN 0
    ELSE DailyReturn(recentPrices, i + 1) * ExpWeight(i)
         + WeightedReturnSum(recentPrices, i + 1, n)

RECURSIVE WeightSum(_, _)
\* the sum of Math.exp(0.1 * i) for i = from..n-1
WeightSum(from, n) == IF from >= n THEN 0 ELSE ExpWeight(from) + WeightSum(from + 1, n)

TransformerCalculateTrend(prices) ==
    IF Len(prices) < 2 THEN 0
    ELSE LET recentPrices == SliceLast(prices, 14)
             n == Len(recentPrices)
         IN TDiv(WeightedReturnSum(recentPrices, 1, n), WeightSum(1, n))

TransformerCalculateLongRangeTrend(prices) ==
    IF Len(prices) < 30 THEN TransformerCalculateTrend(prices)
    ELSE LET longPrices == SliceLast(prices, 30)
             firstPrice == longPrices[1]
             lastPrice == longPrices[Len(longPrices)]
         IN TDiv(TDiv((lastPrice - firstPrice) * SCALE, firstPrice), 30)

TransformerCalculateVolatility(prices) ==
    IF Len(prices) < 2 THEN 200
    ELSE LET returns == Returns(prices)
             n == Len(returns)
             weightSum == WeightSum(1, n + 1)
             weighted == [i \in 1..n |-> returns[i] * ExpWeight(i)]
             mean == TDiv(SeqSum(weighted), weightSum)
             sq == [i \in 1..n |->
                        (returns[i] - mean) * (returns[i] - mean) * ExpWeight(i)]
             variance == TDiv(SeqSum(sq), weightSum)
         IN Sqrt(variance)

\* Math.max(0.2, 1 - i * 0.05), in hundredths
TrendWeight(i) == Max(20, 100 - i * 5)

\* the blend of day i: trendWeight, its complement 1 - trendWeight, and
\* combinedTrend = trend * trendWeight + longRangeTrend * (1 - trendWeight)
Blend(i, trend, longRangeTrend) ==
    LET trendWeight == TrendWeight(i)
    IN [trendWeight |-> trendWeight,
        longRangeWeight |-> 100 - trendWeight,
        combinedTrend |->
            TDiv(trend * trendWeight + longRangeTrend * (100 - trendWeight), 100)]

RECURSIVE TransformerLoop(_, _, _, _, _, _, _, _)
TransformerLoop(i, days, lastPrice, r, trend, volatility, longRangeTrend, acc) ==
    IF i >= days THEN [predictions |-> acc, rng |-> r, threw |-> FALSE]
    ELSE LET dayOfWeekEffect == TDiv(SinWeekTable[(i % 7) + 1] * 2, 1000)
             momentumFactor == TDiv(Tanh(trend * 10) * 5, 1000)
             combinedTrend == Blend(i, trend, longRangeTrend).combinedTrend
             randomFactor ==
                 TDiv(TDiv(Noise(r, SCALE \div 2) * volatility, SCALE) * 4, 10)
             prediction ==
                 StepPrice(lastPrice,
                           combinedTrend + dayOfWeekEffect + momentumFactor + randomFactor)
         IN TransformerLoop(i + 1, days, prediction, NextRng(r), trend, volatility,
                            longRangeTrend, Append(acc, prediction))

TransformerPredict(prices, days, r) ==
    TransformerLoop(0, days, StartPrice(prices), r,
                    TransformerCalculateTrend(prices),
                    TransformerCalculateVolatility(prices),
                    TransformerCalculateLongRangeTrend(prices), <<>>)

----------------------------------------------------------------------------
(* RandomForestModel *)

RandomForestCalculateTrend(prices) ==
    IF Len(prices) < 10 THEN 0
    ELSE LET recentPrices == SliceLast(prices, 14)
             firstPrice == recentPrices[1]
             lastPrice == recentPrices[Len(recentPrices)]
         IN TDiv(TDiv((lastPrice - firstPrice) * SCALE, firstPrice), 14)

RandomForestCalculateVolatility(prices) ==
    IF Len(prices) < 2 THEN 200
    ELSE LET returns == Returns(prices)
             n == Len(returns)
             mean == TDiv(SeqSum(returns), n)
             sq == [i \in 1..n |-> (returns[i] - mean) * (returns[i] - mean)]
         IN Sqrt(TDiv(SeqSum(sq), n))

RECURSIVE RandomForestLoop(_, _, _, _, _, _, _)
RandomForestLoop(i, days, lastPrice, r, trend, volatility, acc) ==
    IF i >= days THEN [predictions |-> acc, rng |-> r, threw |-> FALSE]
    ELSE LET prediction ==
                 StepPrice(lastPrice,
                           trend + TDiv(Noise(r, SCALE \div 2) * volatility, SCALE))
         IN RandomForestLoop(i + 1, days, prediction, NextRng(r), trend, volatility,
                             Append(acc, prediction))

RandomForestPredict(prices, days, r) ==
    RandomForestLoop(0, days, StartPrice(prices), r,
                     RandomForestCalculateTrend(prices),
                     TDiv(RandomForestCalculateVolatility(prices) * 8, 10), <<>>)

----------------------------------------------------------------------------
(* XGBoostModel *)

XGBoostCalculateTrend(prices) ==
    IF Len(prices) < 10 THEN 0
    ELSE LET recentPrices == SliceLast(prices, 10)
             firstPrice == recentPrices[1]
             lastPrice == recentPrices[Len(recentPrices)]
         IN TDiv(TDiv((lastPrice - firstPrice) * SCALE, firstPrice), 10)

XGBoostCalculateVolatility(prices) ==
    IF Len(prices) < 2 THEN 200
    ELSE LET returns == Returns(prices)
             n == Len(returns)
             mean == TDiv(SeqSum(returns), n)
             sq == [i \in 1..n |-> (returns[i] - mean) * (returns[i] - mean)]
         IN Sqrt(TDiv(SeqSum(sq), n))

RECURSIVE XGBoostLoopDayFromOne(_, _, _, _, _, _, _)
\* mutant: the day effect taken at i + 1
XGBoostLoopDayFromOne(i, days, lastPrice, r, trend, volatility, acc) ==
    IF i >= days THEN [predictions |-> acc, rng |-> r, threw |-> FALSE]
    ELSE LET dayEffect == TDiv(SinHalfTable[((i + 1) % 14) + 1] * 5, 1000)
             prediction ==
                 StepPrice(lastPrice,
                           trend + dayEffect
                           + TDiv(Noise(r, SCALE \div 2) * volatility, SCALE))
         IN XGBoostLoopDayFromOne(i + 1, days, prediction, NextRng(r), trend,
                                  volatility, Append(acc, prediction))

RECURSIVE XGBoostLoop(_, _, _, _, _, _, _)
XGBoostLoop(i, days, lastPrice, r, trend, volatility, acc) ==
    IF i >= days THEN [predictions |-> acc, rng |-> r, threw |-> FALSE]
    ELSE LET dayEffect == TDiv(SinHalfTable[(i % 14) + 1] * 5, 1000)
             prediction ==
                 StepPrice(lastPrice,
                           trend + dayEffect
                           + TDiv(Noise(r, SCALE \div 2) * volatility, SCALE))
         IN XGBoostLoop(i + 1, days, prediction, NextRng(r), trend, volatility,
                        Append(acc, prediction))

XGBoostPredict(prices, days, r) ==
    XGBoostLoop(0, days, StartPrice(prices), r,
                XGBoostCalculateTrend(prices),
                TDiv(XGBoostCalculateVolatility(prices) * 9, 10), <<>>)

----------------------------------------------------------------------------
(* SentimentModel *)

RECURSIVE SentimentScores(_, _, _, _)
\* Array(days).fill(0).map(...): one draw per element unless the API is used
SentimentScores(useSentimentAPI, k, r, acc) ==
    IF k <= 0 THEN [scores |-> acc, rng |-> r]
    ELSE IF useSentimentAPI
         THEN SentimentScores(useSentimentAPI, k - 1, r, Append(acc, 0))
         ELSE SentimentScores(useSentimentAPI, k - 1, NextRng(r),
                              Append(acc, TDiv(Noise(r, (4 * SCALE) \div 10) * 2, 100)))

RECURSIVE SentimentLoopFirstDayOnly(_, _, _, _, _, _)
\* mutant: the externally supplied impact applied on the first day only
SentimentLoopFirstDayOnly(i, days, lastPrice, m, sentimentScores, acc) ==
    IF i >= days THEN acc
    ELSE LET dailySentiment ==
                 IF m.useSentimentAPI
                 THEN (IF i = 0 THEN m.sentimentImpact - SCALE ELSE 0)
                 ELSE sentimentScores[i + 1]
             prediction == StepPrice(lastPrice, dailySentiment)
         IN SentimentLoopFirstDayOnly(i + 1, days, prediction, m, sentimentScores,
                                      Append(acc, prediction))

RECURSIVE SentimentLoop(_, _, _, _, _, _)
SentimentLoop(i, days, lastPrice, m, sentimentScores, acc) ==
    IF i >= days THEN acc
    ELSE LET sentimentFactor == IF m.useSentimentAPI THEN m.sentimentImpact ELSE SCALE
             dailySentiment ==
                 IF m.useSentimentAPI THEN sentimentFactor - SCALE
                 ELSE sentimentScores[i + 1]
             prediction == StepPrice(lastPrice, dailySentiment)
         IN SentimentLoop(i + 1, days, prediction, m, sentimentScores,
                          Append(acc, prediction))

\* Array(days) throws a RangeError for a negative length
SentimentPredict(m, prices, days, r) ==
    IF days < 0 THEN [predictions |-> <<>>, rng |-> r, threw |-> TRUE]
    ELSE LET drawn == SentimentScores(m.useSentimentAPI, days, r, <<>>)
         IN [predictions |->
                 SentimentLoop(0, days, StartPrice(prices), m, drawn.scores, <<>>),
             rng |-> drawn.rng, threw |-> FALSE]

----------------------------------------------------------------------------
(* BERTModel *)

BERTCalculateTrend(prices) ==
    IF Len(prices) < 5 THEN 0
    ELSE LET recentPrices == SliceLast(prices, 5)
             firstPrice == recentPrices[1]
             lastPrice == recentPrices[Len(recentPrices)]
         IN TDiv(TDiv((lastPrice - firstPrice) * SCALE, firstPrice), 5)

RECURSIVE BERTLoopNotCarried(_, _, _, _, _, _)
\* mutant: lastPrice not updated, every day predicted from the start price
BERTLoopNotCarried(i, days, lastPrice, r, trend, acc) ==
    IF i >= days THEN [predictions |-> acc, rng |-> r, threw |-> FALSE]
    ELSE LET prediction ==
                 StepPrice(lastPrice,
                           TDiv(trend * 12, 10)
                           + TDiv(Noise(r, SCALE \div 2) * 2, 100))
         IN BERTLoopNotCarried(i + 1, days, lastPrice, NextRng(r), trend,
                               Append(acc, prediction))

RECURSIVE BERTLoop(_, _, _, _, _, _)
BERTLoop(i, days, lastPrice, r, trend, acc) ==
    IF i >= days THEN [predictions |-> acc, rng |-> r, threw |-> FALSE]
    ELSE LET prediction ==
                 StepPrice(lastPrice,
                           TDiv(trend * 12, 10)
                           + TDiv(Noise(r, SCALE \div 2) * 2, 100))
         IN BERTLoop(i + 1, days, prediction, NextRng(r), trend,
                     Append(acc, prediction))

\* mutant: the loop runs while i <= days
BERTPredictOffByOne(prices, days, r) ==
    BERTLoop(0, days + 1, StartPrice(prices), r, BERTCalculateTrend(prices), <<>>)

BERTPredict(prices, days, r) ==
    BERTLoop(0, days, StartPrice(prices), r, BERTCalculateTrend(prices), <<>>)

----------------------------------------------------------------------------
(* EnsembleModel *)

Model(class, name, confidence, useSentimentAPI, sentimentImpact) ==
    [class |-> class, name |-> name, confidence |-> confidence,
     useSentimentAPI |-> useSentimentAPI, sentimentImpact |-> sentimentImpact]

TransformerConfidence == 45
RandomForestConfidence == 25
XGBoostConfidence == 20
SentimentConfidence == 10
BERTConfidence == 10

\* mutant: the sentiment model given twice the weight when it uses the API
NewSentimentModelDoubleWeight(useSentimentAPI, sentimentImpact) ==
    Model("SentimentModel", "VADER Sentiment",
          IF useSentimentAPI THEN 2 * SentimentConfidence ELSE SentimentConfidence,
          useSentimentAPI, sentimentImpact)

\* new SentimentModel(useSentimentAPI, sentimentImpact)
NewSentimentModel(useSentimentAPI, sentimentImpact) ==
    Model("SentimentModel", "VADER Sentiment", SentimentConfidence,
          useSentimentAPI, sentimentImpact)

\* the field initialiser of EnsembleModel.models
DefaultModels ==
    << Model("TransformerModel", "Transformer", TransformerConfidence, FALSE, SCALE),
       Model("RandomForestModel", "Random Forest", RandomForestConfidence, FALSE, SCALE),
       Model("XGBoostModel", "XGBoost", XGBoostConfidence, FALSE, SCALE),
       NewSentimentModel(FALSE, SCALE),
       Model("BERTModel", "BERT NLP", BERTConfidence, FALSE, SCALE) >>

\* The array a model's predict was given, after the call.  The predicts read
\* its length and its elements and call slice on it, in this order:
\* TransformerModel calculateTrend, (calculateVolatility,) calculateLongRangeTrend,
\* which below 30 prices calls calculateTrend again; the others calculateTrend.
PricesAfterPredict(m, prices) ==
    CASE m.class = "TransformerModel" ->
             LET afterTrend == IF Len(prices) < 2 THEN prices
                               ELSE ReceiverAfterSlice(prices, 14)
             IN IF Len(afterTrend) < 30
                THEN IF Len(afterTrend) < 2 THEN afterTrend
                     ELSE ReceiverAfterSlice(afterTrend, 14)
                ELSE ReceiverAfterSlice(afterTrend, 30)
      [] m.class = "RandomForestModel" ->
             IF Len(prices) < 10 THEN prices ELSE ReceiverAfterSlice(prices, 14)
      [] m.class = "XGBoostModel" ->
             IF Len(prices) < 10 THEN prices ELSE ReceiverAfterSlice(prices, 10)
      [] m.class = "SentimentModel" -> prices
      [] m.class = "BERTModel" ->
             IF Len(prices) < 5 THEN prices ELSE ReceiverAfterSlice(prices, 5)

\* model.predict(historicalPrices, days), dispatched on the model's class
ModelPredict(m, prices, days, r) ==
    CASE m.class = "TransformerModel" -> TransformerPredict(prices, days, r)
      [] m.class = "RandomForestModel" -> RandomForestPredict(prices, days, r)
      [] m.class = "XGBoostModel" -> XGBoostPredict(prices, days, r)
      [] m.class = "SentimentModel" -> SentimentPredict(m, prices, days, r)
      [] m.class = "BERTModel" -> BERTPredict(prices, days, r)

RECURSIVE MapModels(_, _, _, _, _, _, _, _)
\* this.models.map(model => ({name, predictions: model.predict(..), confidence})),
\* from the k-th model on; a throwing predict ends the map.  Every predict is
\* given the same array object, `prices` as the predicts before it left it.
\* `after` collects the generator's state as each predict returns, `seen` the
\* array as each predict received it.
MapModels(ms, k, prices, days, r, acc, after, seen) ==
    IF k > Len(ms)
    THEN [modelPredictions |-> acc, rng |-> r, threw |-> FALSE, rngAfter |-> after,
          priceArray |-> [seen |-> seen, after |-> prices]]
    ELSE LET p == ModelPredict(ms[k], prices, days, r)
         IN IF p.threw
            THEN [modelPredictions |-> acc, rng |-> p.rng, threw |-> TRUE,
                  rngAfter |-> after,
                  priceArray |-> [seen |-> Append(seen, prices),
                                  after |-> PricesAfterPredict(ms[k], prices)]]
            ELSE MapModels(ms, k + 1, PricesAfterPredict(ms[k], prices), days, p.rng,
                           Append(acc, [name |-> ms[k].name,
                                        predictions |-> p.predictions,
                                        confidence |-> ms[k].confidence]),
                           Append(after, p.rng), Append(seen, prices))

HasNaN(values) == \E i \in 1..Len(values) : values[i] = NaN

RECURSIVE WeightedSum(_, _, _)
\* weightedSum after the models from k on: the sum of predictions[day] * confidence
WeightedSum(mp, k, day) ==
    IF k > Len(mp) THEN 0
    ELSE LET rest == WeightedSum(mp, k + 1, day)
             x == mp[k].predictions[day + 1]
         IN IF x = NaN \/ rest = NaN THEN NaN ELSE x * mp[k].confidence + rest

\* mutant: the last model's weight left out of the total
TotalWeightButLast(mp, k) ==
    SeqSum([j \in 1..(Len(mp) - k) |-> mp[k + j - 1].confidence])

RECURSIVE TotalWeight(_, _)
\* totalWeight after the models from k on
TotalWeight(mp, k) ==
    IF k > Len(mp) THEN 0 ELSE mp[k].confidence + TotalWeight(mp, k + 1)

\* mutant: the plain mean of the models' prices, the weights ignored
PredictedPriceUnweighted(mp, day) ==
    LET predictions == [k \in 1..Len(mp) |-> mp[k].predictions[day + 1]]
    IN IF HasNaN(predictions) THEN NaN ELSE TDiv(SeqSum(predictions), Len(mp))

\* mutant: the weights taken to sum to 1 already, weightedSum not divided
PredictedPriceAssumeNormalised(mp, day) ==
    LET weightedSum == WeightedSum(mp, 1, day)
    IN IF weightedSum = NaN THEN NaN ELSE TDiv(weightedSum, 100)

\* weightedSum / totalWeight
PredictedPrice(mp, day) ==
    LET weightedSum == WeightedSum(mp, 1, day)
        totalWeight == TotalWeight(mp, 1)
    IN IF weightedSum = NaN THEN NaN ELSE TDiv(weightedSum, totalWeight)

\* mutant: the sample variance, divided by one less than the number of values
CalculateVarianceSample(values) ==
    IF HasNaN(values) THEN NaN
    ELSE LET mean == TDiv(SeqSum(values), Len(values))
             sq == [i \in 1..Len(values) |-> (values[i] - mean) * (values[i] - mean)]
         IN TDiv(SeqSum(sq), Len(values) - 1)

\* EnsembleModel.calculateVariance(values)
CalculateVariance(values) ==
    IF HasNaN(values) THEN NaN
    ELSE LET mean == TDiv(SeqSum(values), Len(values))
             sq == [i \in 1..Len(values) |-> (values[i] - mean) * (values[i] - mean)]
         IN TDiv(SeqSum(sq), Len(values))

\* mutant: the widening spread over twice the horizon
DayFactorHalved(day, days) == SCALE + TDiv(day * SCALE, 2 * days)

\* mutant: the day counted from 1
DayFactorFromOne(day, days) == SCALE + TDiv((day + 1) * SCALE, days)

\* 1 + day / days
DayFactor(day, days) == SCALE + TDiv(day * SCALE, days)

\* stdDev * 1.96 * dayFactor * volatilityFactor (volatilityFactor in hundredths)
ConfidenceInterval(stdDev, day, days, volatilityFactor) ==
    IF stdDev = NaN THEN NaN
    ELSE TDiv(TDiv(TDiv(stdDev * 196, 100) * DayFactor(day, days), SCALE)
              * volatilityFactor, 100)

\* mutant: the confidence clamped to [0, 1]
ConfidenceClamped(stdDev, predictedPrice) ==
    LET c == SCALE - TDiv(stdDev * SCALE, predictedPrice)
    IN IF c < 0 THEN 0 ELSE IF c > SCALE THEN SCALE ELSE c

\* 1 - stdDev / predictedPrice
Confidence(stdDev, predictedPrice) == SCALE - TDiv(stdDev * SCALE, predictedPrice)

\* the locals of the pass for `day` of the loop over days
DayLocals(mp, day, days, volatilityFactor) ==
    LET predictions == [k \in 1..Len(mp) |-> mp[k].predictions[day + 1]]
        variance == CalculateVariance(predictions)
        stdDev == Sqrt(variance)
    IN [predictedPrice |-> PredictedPrice(mp, day),
        variance |-> variance,
        stdDev |-> stdDev,
        dayFactor |-> DayFactor(day, days),
        confidenceInterval |-> ConfidenceInterval(stdDev, day, days, volatilityFactor)]

\* the PredictionResult pushed for `day`
\* mutant: the lower bound half as far from the price as the upper bound
DayResultLowerHalved(mp, day, days, volatilityFactor) ==
    LET l == DayLocals(mp, day, days, volatilityFactor)
    IN IF l.predictedPrice = NaN \/ l.stdDev = NaN
       THEN [predicted |-> NaN, upperBound |-> NaN, lowerBound |-> NaN,
             confidence |-> NaN]
       ELSE [predicted |-> l.predictedPrice,
             upperBound |-> l.predictedPrice + l.confidenceInterval,
             lowerBound |-> l.predictedPrice - TDiv(l.confidenceInterval, 2),
             confidence |-> Confidence(l.stdDev, l.predictedPrice)]

DayResult(mp, day, days, volatilityFactor) ==
    LET l == DayLocals(mp, day, days, volatilityFactor)
    IN IF l.predictedPrice = NaN \/ l.stdDev = NaN
       THEN [predicted |-> NaN, upperBound |-> NaN, lowerBound |-> NaN,
             confidence |-> NaN]
       ELSE [predicted |-> l.predictedPrice,
             upperBound |-> l.predictedPrice + l.confidenceInterval,
             lowerBound |-> l.predictedPrice - l.confidenceInterval,
             confidence |-> Confidence(l.stdDev, l.predictedPrice)]

\* the loop over day = 0..days-1
CombineDays(mp, days, volatilityFactor) ==
    [d \in 1..days |-> DayResult(mp, d - 1, days, volatilityFactor)]

\* EnsembleModel.predict(historicalPrices, days, volatilityFactor)
EnsemblePredict(ms, prices, days, volatilityFactor, r) ==
    LET mapped == MapModels(ms, 1, prices, days, r, <<>>, <<>>, <<>>)
    IN IF mapped.threw
       THEN [outcome |-> "threw", modelsRun |-> Len(mapped.modelPredictions),
             modelPredictions |-> mapped.modelPredictions, results |-> <<>>,
             rng |-> mapped.rng, rngAfter |-> mapped.rngAfter, dayLocals |-> <<>>,
             priceArray |-> mapped.priceArray]
       ELSE [outcome |-> "returned", modelsRun |-> Len(mapped.modelPredictions),
             modelPredictions |-> mapped.modelPredictions,
             results |-> CombineDays(mapped.modelPredictions, days, volatilityFactor),
             rng |-> mapped.rng, rngAfter |-> mapped.rngAfter,
             dayLocals |-> [d \in 1..days |->
                               DayLocals(mapped.modelPredictions, d - 1, days,
                                         volatilityFactor)],
             priceArray |-> mapped.priceArray]

\* mutant: the weights taken to sum to 1 already, not divided by their total
GetContributionsAssumeNormalised(ms) ==
    [k \in 1..Len(ms) |->
        [name |-> ms[k].name, weight |-> TDiv(ms[k].confidence * SCALE, 100) * 100]]

\* EnsembleModel.getModelContributions()
GetContributions(ms) ==
    LET totalConfidence == TotalWeight(ms, 1)
    IN [k \in 1..Len(ms) |->
            [name |-> ms[k].name,
             weight |-> TDiv(ms[k].confidence * SCALE, totalConfidence) * 100]]

\* the trend and volatility each model's predict computes from the series
Estimates(prices, days) ==
    [transformerTrend |-> TransformerCalculateTrend(prices),
     transformerBlend |->
         [d \in 1..days |-> Blend(d - 1, TransformerCalculateTrend(prices),
                                  TransformerCalculateLongRangeTrend(prices))],
     transformerVolatility |-> TransformerCalculateVolatility(prices),
     transformerLongRangeTrend |-> TransformerCalculateLongRangeTrend(prices),
     randomForestTrend |-> RandomForestCalculateTrend(prices),
     randomForestVolatility |-> RandomForestCalculateVolatility(prices),
     xgboostTrend |-> XGBoostCalculateTrend(prices),
     xgboostVolatility |-> XGBoostCalculateVolatility(prices),
     bertTrend |-> BERTCalculateTrend(prices)]

----------------------------------------------------------------------------
(* sentimentAnalysis.ts *)

Null == <<>>

\* What fetch and response.json() give: fetch rejects ("networkError"),
\* response.ok is false ("notOk"), or data.Data is the articles.  An article is
\* modelled by whether its title or body holds a positive and a negative keyword.
Articles ==
    UNION {[1..n -> [isPositive : BOOLEAN, isNegative : BOOLEAN]] : n \in 1..MaxArticles}
Responses ==
    {[kind |-> k, articles |-> <<>>] : k \in {"networkError", "notOk", "ok"}}
    \cup {[kind |-> "ok", articles |-> a] : a \in Articles}

\* the fetch did not deliver articles: the try block of fetchSentimentData throws
FetchFailed(response) == response.kind # "ok" \/ Len(response.articles) = 0

\* fetchSentimentData(symbol), given what the network delivers
FetchSentimentData(symbol, response) ==
    IF FetchFailed(response)
    THEN [bullishPercentage |-> (IF symbol = "BTC" THEN 65 ELSE 58) * SCALE,
          bearishPercentage |-> (IF symbol = "BTC" THEN 25 ELSE 32) * SCALE,
          totalArticles |-> 42,
          sentimentScore |-> IF symbol = "BTC" THEN 4000 ELSE 2600,
          sentimentClass |-> "bullish"]
    ELSE LET articles == response.articles
             totalArticles == Len(articles)
             positiveCount ==
                 Cardinality({i \in 1..totalArticles :
                                 articles[i].isPositive /\ ~articles[i].isNegative})
             negativeCount ==
                 Cardinality({i \in 1..totalArticles :
                                 articles[i].isNegative /\ ~articles[i].isPositive})
             sentimentScore == TDiv((positiveCount - negativeCount) * SCALE, totalArticles)
         IN [bullishPercentage |-> TDiv(positiveCount * SCALE, totalArticles) * 100,
             bearishPercentage |-> TDiv(negativeCount * SCALE, totalArticles) * 100,
             totalArticles |-> totalArticles,
             sentimentScore |-> sentimentScore,
             sentimentClass |-> IF sentimentScore < 0 - 2000 THEN "bearish"
                                ELSE IF sentimentScore > 2000 THEN "bullish"
                                ELSE "neutral"]

\* getSentimentPriceImpact(symbol, currentPrice): 1 + sentimentScore * 0.03;
\* fetchSentimentData never rejects, so the catch that returns 1 is not entered
GetSentimentPriceImpact(symbol, response) ==
    SCALE + TDiv(FetchSentimentData(symbol, response).sentimentScore * 3, 100)

----------------------------------------------------------------------------
(* transformerModel.ts: the TransformerModel built on TensorFlow *)

\* inputData after the padding loop: unshift(inputData[0]) up to 30 elements;
\* inputData[0] of an empty array is undefined, a NaN in every computation
PaddedPrices(prices) ==
    IF Len(prices) >= 30 THEN prices
    ELSE [i \in 1..(30 - Len(prices)) |->
             IF Len(prices) = 0 THEN NaN ELSE prices[1]] \o prices

RECURSIVE NormalizedTrendSum(_, _)
\* the sum of (normalizedPrices[i] - normalizedPrices[i - 1]) * Math.exp(0.1 * i)
\* from the 0-based index i on
NormalizedTrendSum(normalizedPrices, i) ==
    IF i >= Len(normalizedPrices) THEN 0
    ELSE (normalizedPrices[i + 1] - normalizedPrices[i]) * ExpWeight(i)
         + NormalizedTrendSum(normalizedPrices, i + 1)

RECURSIVE NormalizedVolatilitySum(_, _)
\* the sum of Math.abs(normalizedPrices[i] / normalizedPrices[i - 1] - 1) *
\* Math.exp(0.1 * i) from the 0-based index i on
NormalizedVolatilitySum(normalizedPrices, i) ==
    IF i >= Len(normalizedPrices) THEN 0
    ELSE LET dailyReturn ==
                 TDiv(normalizedPrices[i + 1] * SCALE, normalizedPrices[i]) - SCALE
         IN (IF dailyReturn < 0 THEN 0 - dailyReturn ELSE dailyReturn) * ExpWeight(i)
            + NormalizedVolatilitySum(normalizedPrices, i + 1)

\* the trend and the volatility of the last 30 (padded) prices; NaN where the
\* last price is
NormalizedEstimates(prices) ==
    LET recentPrices == SliceLast(PaddedPrices(prices), 30)
        lastPrice == recentPrices[Len(recentPrices)]
        normalizedPrices ==
            [i \in 1..Len(recentPrices) |-> TDiv(recentPrices[i] * SCALE, lastPrice)]
    IN IF lastPrice = NaN
       THEN [lastPrice |-> NaN, trend |-> NaN, volatility |-> NaN]
       ELSE [lastPrice |-> lastPrice,
             trend |-> TDiv(NormalizedTrendSum(normalizedPrices, 1), WeightSum(1, 30)),
             volatility |->
                 TDiv(NormalizedVolatilitySum(normalizedPrices, 1), WeightSum(1, 30))]

RECURSIVE SimulatedLoop(_, _, _, _, _, _, _)
\* the loop of the simulated transformer prediction
SimulatedLoop(i, days, currentPrice, r, trend, volatility, acc) ==
    IF i >= days THEN [predictedPrices |-> acc, rng |-> r]
    ELSE LET dayOfWeekEffect == TDiv(SinWeekTable[(i % 7) + 1] * 2, 1000)
             momentumFactor == TDiv(Tanh(trend * 10) * 5, 1000)
             longRangeFactor == IF i < 3 THEN TDiv(trend * 12, 10)
                                ELSE TDiv(trend * (100 + 5 * i), 100)
             change == longRangeFactor + dayOfWeekEffect + momentumFactor
                       + TDiv(TDiv(Noise(r, SCALE \div 2) * volatility, SCALE)
                              * (10 + i), 10)
             price == IF currentPrice = NaN \/ trend = NaN THEN NaN
                      ELSE StepPrice(currentPrice, change)
         IN SimulatedLoop(i + 1, days, price, NextRng(r), trend, volatility,
                          Append(acc, price))

\* Math.max(0.1, 0.95 - volatility * 10 - days * 0.01); Math.max gives NaN
\* for a NaN argument
SimulatedConfidence(volatility, days) ==
    IF volatility = NaN THEN NaN ELSE Max(1000, 9500 - volatility * 10 - days * 100)

\* the try block of predict once the model is there
SimulatedPrediction(prices, days, r) ==
    LET est == NormalizedEstimates(prices)
        loop == SimulatedLoop(0, days, est.lastPrice, r, est.trend, est.volatility, <<>>)
    IN [predictedPrices |-> loop.predictedPrices,
        confidence |-> SimulatedConfidence(est.volatility, days),
        fallback |-> FALSE, rng |-> loop.rng]

\* TransformerModel.calculateTrend of transformerModel.ts: the last week
LastWeekTrend(prices) ==
    IF Len(prices) < 2 THEN 0
    ELSE LET recentPrices == SliceLast(prices, 7)
             firstPrice == recentPrices[1]
             lastPrice == recentPrices[Len(recentPrices)]
         IN TDiv(TDiv((lastPrice - firstPrice) * SCALE, firstPrice), Len(recentPrices))

RECURSIVE FallbackLoop(_, _, _, _, _, _)
\* currentPrice * (1 + trend + (Math.random() - 0.5) * 0.02), day after day
FallbackLoop(i, days, currentPrice, r, trend, acc) ==
    IF i >= days THEN [predictedPrices |-> acc, rng |-> r]
    ELSE LET price == StepPrice(currentPrice,
                                trend + TDiv(Noise(r, SCALE \div 2) * 2, 100))
         IN FallbackLoop(i + 1, days, price, NextRng(r), trend, Append(acc, price))

\* the catch block of predict: the simple prediction, confidence 0.7
FallbackPrediction(prices, days, r) ==
    LET loop == FallbackLoop(0, days, StartPrice(prices), r, LastWeekTrend(prices), <<>>)
    IN [predictedPrices |-> loop.predictedPrices, confidence |-> 7000,
        fallback |-> TRUE, rng |-> loop.rng]

\* predict from its try on: `Model not loaded` is thrown and caught when
\* this.model is null
PredictBody(tm, prices, days, r) ==
    IF tm.model THEN SimulatedPrediction(prices, days, r)
    ELSE FallbackPrediction(prices, days, r)

----------------------------------------------------------------------------
(* Inputs *)

\* a series of n prices rising by 20 to 80 a day
Rising(n) == [i \in 1..n |-> BasePrice + 60 * i + 20 * (i % 3)]
\* a series of n prices rising by 30 a day with a swing of 150 every other day
ZigZag(n) == [i \in 1..n |-> BasePrice + 30 * i + 150 * (i % 2)]

SeriesSet == {<<>>, Rising(1), Rising(6), Rising(10), ZigZag(30)}
\* the horizons -1..MaxDays, and the 7 days of the "7d" timeframe
DaysSet == ((0 - 1)..MaxDays) \cup {7}
\* volatilityFactor in hundredths: the default 1, 0.03 * 30, and 0
VolatilityFactors == {100, 90, 0}
\* sentimentImpact: neutral 1.0, and 1.05
SentimentImpacts == {SCALE, SCALE + 500}

\* n identical prices
Flat(n, price) == [i \in 1..n |-> price]
\* the flat series of 30 prices
FlatSeries == {Flat(30, 10000), Flat(30, 20000), Flat(30, BasePrice), Flat(30, 40000)}
\* volatilityFactor in hundredths: 0.03 * 30, the default 1, and 0.04 * 30
FlatVolatilityFactors == {90, 100, 120}
\* their horizons: 1..MaxDays, and the 7 and 30 days of the timeframes
FlatDays == (1..MaxDays) \cup {7, 30}

\* series on which the models disagree by more than the combined price: a
\* price series is a number[], and nothing keeps its elements positive
ExtremeSeries == {<<100, -250>>, <<-100, 100>>, <<-250>>, Rising(10)}
\* horizons for the extreme series: short, since their swings grow each day
ExtremeDays == (0 - 1)..MaxDays

ReplaySeries == {Rising(1), Rising(10)}

\* arguments of the predict of transformerModel.ts
PretrainedSeries == {<<>>, Rising(2), ZigZag(30)}
PretrainedDays == {0 - 1, 0, MaxDays}

\* series and horizons for the blend of the short and the long-range trend:
\* the long-range trend needs 30 prices, the floor of the weight 17 days
MomentumSeries == {Rising(10), Rising(30), ZigZag(30)}
MomentumDays == {MaxDays, 17, 30}

Currencies == {"BTC", "ETH"}
\* arguments of generatePredictionData: the number of past days, the start
\* price, the timeframe, and the sentiment mode with its multiplier
HistoryDays == {0 - 1, 2}
StartPrices == {BasePrice}
Timeframes == {"1d", "7d", "30d"}
SentimentArgs ==
    {[useSentimentAnalysis |-> FALSE, sentimentImpact |-> SCALE]}
    \cup {[useSentimentAnalysis |-> TRUE, sentimentImpact |-> m] : m \in SentimentImpacts}
ReplayDays == {1, 2}

----------------------------------------------------------------------------
(* State machine *)

\* PredictionSection as Home mounts it: currency "BTC", modelParameters null,
\* and the useState initial values
NewPredictionSection ==
    [currency |-> "BTC", modelParameters |-> Null,
     useSentimentAnalysis |-> FALSE, sentimentImpact |-> SCALE]

\* everything but the generator: nothing called yet
Constructed ==
    /\ models = DefaultModels
    /\ historicalPrices = <<>>
    /\ callDays = 0
    /\ callVf = 100
    /\ callSeed = 0
    /\ callModels = <<>>
    /\ outcome = "none"
    /\ modelsRun = 0
    /\ modelPredictions = <<>>
    /\ estimates = <<>>
    /\ results = <<>>
    /\ contributions = <<>>
    /\ replayed = FALSE
    /\ rngAfter = <<>>
    /\ dayLocals = <<>>
    /\ contributionModels = <<>>
    /\ priceArray = <<>>
    /\ generateArgs = <<>>
    /\ data = <<>>
    /\ predictionSection = NewPredictionSection
    /\ inFlight = <<>>
    /\ settled = <<>>
    /\ transformerModel = Null
    /\ promises = <<>>
    /\ suspended = <<>>
    /\ predictionChart = Null

Init == rng \in 0..(RngModulus - 1) /\ Constructed

\* new EnsembleModel(): a fresh instance, nothing called on it yet
NewEnsembleModel ==
    /\ models' = DefaultModels
    /\ historicalPrices' = <<>>
    /\ callDays' = 0
    /\ callVf' = 100
    /\ callSeed' = 0
    /\ callModels' = <<>>
    /\ outcome' = "none"
    /\ modelsRun' = 0
    /\ modelPredictions' = <<>>
    /\ estimates' = <<>>
    /\ results' = <<>>
    /\ contributions' = <<>>
    /\ replayed' = FALSE
    /\ rngAfter' = <<>>
    /\ dayLocals' = <<>>
    /\ contributionModels' = <<>>
    /\ priceArray' = <<>>
    /\ UNCHANGED <<rng, moduleVars, sectionVars, transformerVars, chartVars>>

\* ensemble.models.findIndex(model => model.name === name), 1-based; 0 for -1
FindIndex(ms, name) ==
    IF \E k \in 1..Len(ms) : ms[k].name = name
    THEN CHOOSE k \in 1..Len(ms) :
             /\ ms[k].name = name
             /\ \A j \in 1..(k - 1) : ms[j].name # name
    ELSE 0

\* the models after the replacement of the sentiment model by one that uses the API
SubstitutedModels(ms, sentimentImpact) ==
    LET modelIndex == FindIndex(ms, "VADER Sentiment")
    IN IF modelIndex # 0
       THEN [ms EXCEPT ![modelIndex] = NewSentimentModel(TRUE, sentimentImpact)]
       ELSE ms

SubstituteSentiment(sentimentImpact) ==
    /\ models' = SubstitutedModels(models, sentimentImpact)
    /\ UNCHANGED <<rng, historicalPrices, callDays, callVf, callSeed, callModels,
                   outcome, modelsRun, modelPredictions, estimates, results,
                   contributions, replayed, rngAfter, dayLocals,
                   contributionModels, priceArray, moduleVars, sectionVars, transformerVars, chartVars>>

\* predict(prices, days, volatilityFactor) on an ensemble whose models are ms,
\* begun in generator state r: the call, its locals and what it returns
EnsembleCall(ms, prices, days, volatilityFactor, r) ==
    \E out \in {EnsemblePredict(ms, prices, days, volatilityFactor, r)} :
       /\ historicalPrices' = prices
       /\ callDays' = days
       /\ callVf' = volatilityFactor
       /\ callSeed' = r
       /\ callModels' = ms
       /\ outcome' = out.outcome
       /\ modelsRun' = out.modelsRun
       /\ modelPredictions' = out.modelPredictions
       /\ estimates' = Estimates(prices, days)
       /\ results' = out.results
       /\ rng' = out.rng
       /\ rngAfter' = out.rngAfter
       /\ dayLocals' = out.dayLocals
       /\ priceArray' = out.priceArray
       /\ replayed' = (/\ outcome # "none"
                       /\ historicalPrices = prices
                       /\ callDays = days
                       /\ callVf = volatilityFactor
                       /\ callSeed = r
                       /\ callModels = ms)

\* ensemble.predict(prices, days, volatilityFactor)
Predict(prices, days, volatilityFactor) ==
    /\ EnsembleCall(models, prices, days, volatilityFactor, rng)
    /\ UNCHANGED <<models, contributions, contributionModels, moduleVars,
                   sectionVars, transformerVars, chartVars>>

\* ensemble.getModelContributions()
GetModelContributions ==
    /\ contributions' = GetContributions(models)
    /\ contributionModels' = models
    /\ UNCHANGED <<models, rng, historicalPrices, callDays, callVf, callSeed,
                   callModels, outcome, modelsRun, modelPredictions, estimates,
                   results, replayed, rngAfter, dayLocals, priceArray, moduleVars,
                   sectionVars, transformerVars, chartVars>>

\* a Math.random() call made elsewhere in the process
OtherRandom ==
    /\ rng' = NextRng(rng)
    /\ UNCHANGED <<models, historicalPrices, callDays, callVf, callSeed, callModels,
                   outcome, modelsRun, modelPredictions, estimates, results,
                   contributions, replayed, rngAfter, dayLocals,
                   contributionModels, priceArray, moduleVars, sectionVars, transformerVars, chartVars>>

\* The life of one instance as generatePredictionData and getModelContributions
\* use it: constructed, its sentiment model replaced at most once before the
\* forecast, one forecast.
Configure ==
    \E sentimentImpact \in SentimentImpacts :
        /\ outcome = "none"
        /\ contributions = <<>>
        /\ models = DefaultModels
        /\ SubstituteSentiment(sentimentImpact)

Forecast ==
    \E prices \in SeriesSet, days \in DaysSet, volatilityFactor \in VolatilityFactors :
        /\ outcome = "none"
        /\ Predict(prices, days, volatilityFactor)

Next ==
    \/ NewEnsembleModel
    \/ Configure
    \/ Forecast
    \/ GetModelContributions

Spec == Init /\ [][Next]_vars

\* One instance called again and again, for forecasts and for the weight
\* breakdown, with other draws from Math.random in between and its sentiment
\* model replaced at any time.
Reforecast ==
    \E prices \in ReplaySeries, days \in ReplayDays : Predict(prices, days, 100)

Reconfigure ==
    \E sentimentImpact \in SentimentImpacts : SubstituteSentiment(sentimentImpact)

NextReplay ==
    \/ NewEnsembleModel
    \/ Reconfigure
    \/ Reforecast
    \/ GetModelContributions
    \/ OtherRandom

SpecReplay == Init /\ [][NextReplay]_vars

----------------------------------------------------------------------------
(* The exported functions generatePredictionData and getModelContributions *)

\* mutant: one module-level ensemble reused by every call
SharedEnsemble == models

\* new EnsembleModel(): the models of a fresh instance
ConstructEnsemble == DefaultModels

\* currency === "BTC" ? 0.03 : 0.04
Volatility(currency) == IF currency = "BTC" THEN 300 ELSE 400

\* mutant: a week for every timeframe but "1d"
FutureDaysWeekOtherwise(timeframe) == IF timeframe = "1d" THEN 1 ELSE 7

\* timeframe === "1d" ? 1 : timeframe === "7d" ? 7 : 30
FutureDays(timeframe) ==
    IF timeframe = "1d" THEN 1 ELSE IF timeframe = "7d" THEN 7 ELSE 30

RECURSIVE HistoricalWalk(_, _, _, _, _)
\* the loop for (i = days; i > 0; i--): currentPrice += (random - 0.5) *
\* volatility * currentPrice, pushed on historicalPrices
HistoricalWalk(i, currentPrice, volatility, r, acc) ==
    IF i <= 0 THEN [prices |-> acc, currentPrice |-> currentPrice, rng |-> r]
    ELSE LET change ==
                 TDiv(TDiv(Noise(r, SCALE \div 2) * volatility, SCALE) * currentPrice,
                      SCALE)
         IN HistoricalWalk(i - 1, currentPrice + change, volatility, NextRng(r),
                           Append(acc, currentPrice + change))

\* a point of the returned array; date is the number of days after today
DataPoint(date, actual, predicted, upperBound, lowerBound) ==
    [date |-> date, actual |-> actual, predicted |-> predicted,
     upperBound |-> upperBound, lowerBound |-> lowerBound]

\* the array generatePredictionData returns: the past days, today, the forecast
PredictionData(days, prices, futureDays, predictions) ==
    [j \in 1..Len(prices) |->
        DataPoint(j - Len(prices), prices[j], prices[j], prices[j], prices[j])]
    \o [j \in 1..futureDays |->
           DataPoint(j, 0, predictions[j].predicted, predictions[j].upperBound,
                     predictions[j].lowerBound)]

\* generatePredictionData(days, startPrice, currency, timeframe,
\*                        useSentimentAnalysis, sentimentImpact)
\* the ensemble of a generatePredictionData call: constructed, and its
\* sentiment model replaced if useSentimentAnalysis
GenerateEnsemble(useSentimentAnalysis, sentimentImpact) ==
    IF useSentimentAnalysis
    THEN SubstitutedModels(ConstructEnsemble, sentimentImpact)
    ELSE ConstructEnsemble

\* generatePredictionData(days, startPrice, currency, timeframe,
\* useSentimentAnalysis, sentimentImpact) begun in generator state r: the
\* history, the ensemble's forecast and the array returned
GenerateCall(days, startPrice, currency, timeframe, useSentimentAnalysis, sentimentImpact, r) ==
    \E walk \in {HistoricalWalk(days, startPrice, Volatility(currency), r, <<>>)} :
        LET prices == Append(walk.prices, walk.currentPrice)
            futureDays == FutureDays(timeframe)
        IN /\ EnsembleCall(GenerateEnsemble(useSentimentAnalysis, sentimentImpact),
                           prices, futureDays,
                           TDiv(Volatility(currency) * 30, 100), walk.rng)
           /\ generateArgs' =
                  [days |-> days, startPrice |-> startPrice, currency |-> currency,
                   timeframe |-> timeframe,
                   useSentimentAnalysis |-> useSentimentAnalysis,
                   sentimentImpact |-> sentimentImpact]
           /\ data' = PredictionData(days, prices, futureDays, results')

\* a call of generatePredictionData on its own
GeneratePredictionData(days, startPrice, currency, timeframe, useSentimentAnalysis, sentimentImpact) ==
    /\ GenerateCall(days, startPrice, currency, timeframe, useSentimentAnalysis,
                    sentimentImpact, rng)
    /\ models' = GenerateEnsemble(useSentimentAnalysis, sentimentImpact)
    /\ UNCHANGED <<contributions, contributionModels, sectionVars, transformerVars,
                   chartVars>>

\* the exported getModelContributions(): a fresh ensemble's breakdown
GetModelContributionsOfFreshEnsemble ==
    /\ models' = ConstructEnsemble
    /\ contributions' = GetContributions(ConstructEnsemble)
    /\ contributionModels' = ConstructEnsemble
    /\ UNCHANGED <<rng, historicalPrices, callDays, callVf, callSeed, callModels,
                   outcome, modelsRun, modelPredictions, estimates, results,
                   replayed, rngAfter, dayLocals, priceArray, moduleVars,
                   sectionVars, transformerVars, chartVars>>

\* The calls made: over 30 days only in the default sentiment mode, since
\* thirty days of 1.05 spread the models beyond the integers of the model.
Generate ==
    \E days \in HistoryDays, startPrice \in StartPrices, currency \in Currencies,
       timeframe \in Timeframes, sentiment \in SentimentArgs :
        /\ FutureDays(timeframe) = 30 => ~sentiment.useSentimentAnalysis
        /\ GeneratePredictionData(days, startPrice, currency, timeframe,
                                  sentiment.useSentimentAnalysis,
                                  sentiment.sentimentImpact)

NextModule ==
    \/ Generate
    \/ GetModelContributionsOfFreshEnsemble

SpecModule == Init /\ [][NextModule]_vars

----------------------------------------------------------------------------
(* The TransformerModel of transformerModel.ts and its promises *)

\* the sequence without its k-th element
RemoveAt(seq, k) == SubSeq(seq, 1, k - 1) \o SubSeq(seq, k + 1, Len(seq))

\* A promise: pending, resolved or rejected; `follows` is the promise an async
\* function returned, whose state the promise takes in a later microtask
\* (0: none); `value` is what it resolved with.
Promise(kind, state, follows, value) ==
    [kind |-> kind, state |-> state, follows |-> follows, value |-> value]

\* mutant: a failed build leaves the promise pending
ExecutorSettlesOnSuccessOnly(buildThrows) ==
    IF buildThrows THEN "pending" ELSE "resolved"

\* the executor of modelLoadPromise: resolve() at the end of the try block
\* and at the end of the catch block
ExecutorSettles(buildThrows) == "resolved"

\* mutant: the early return of loadModel is never taken
HasLoadPromiseNever(tm) == FALSE

\* if (this.modelLoadPromise)
HasLoadPromise(tm) == tm.modelLoadPromise # 0

\* the fields as the class declares them
FieldInitializers ==
    [model |-> FALSE, isModelLoaded |-> FALSE, modelLoadPromise |-> 0, builds |-> 0]

\* loadModel() on the instance tm with the promises ps made so far.  The
\* executor runs inside `new Promise`: it builds the model, which throws or
\* not, and resolves; then the promise is stored.  An async function, it
\* returns a promise of its own that follows the stored one.  `builds`
\* counts the runs of the executor.
LoadModel(tm, ps, buildThrows) ==
    IF HasLoadPromise(tm)
    THEN [tm |-> tm,
          promises |-> Append(ps, Promise("loadModel", "pending",
                                          tm.modelLoadPromise, Null)),
          returned |-> Len(ps) + 1]
    ELSE [tm |-> [model |-> tm.model \/ ~buildThrows,
                  isModelLoaded |-> tm.isModelLoaded \/ ~buildThrows,
                  modelLoadPromise |-> Len(ps) + 1,
                  builds |-> tm.builds + 1],
          promises |-> ps \o << Promise("modelLoadPromise",
                                       ExecutorSettles(buildThrows), 0, Null),
                                Promise("loadModel", "pending", Len(ps) + 1, Null) >>,
          returned |-> Len(ps) + 2]

EnsembleUntouched ==
    UNCHANGED <<models, historicalPrices, callDays, callVf, callSeed, callModels,
                outcome, modelsRun, modelPredictions, estimates, results,
                contributions, replayed, rngAfter, dayLocals, contributionModels,
                priceArray, moduleVars, sectionVars, chartVars>>

\* new TransformerModel(): the constructor calls loadModel()
NewTransformerModel ==
    \E buildThrows \in BOOLEAN :
        /\ transformerModel = Null
        /\ \E out \in {LoadModel(FieldInitializers, promises, buildThrows)} :
               /\ transformerModel' = out.tm
               /\ promises' = out.promises
        /\ UNCHANGED <<rng, suspended>>
        /\ EnsembleUntouched

\* loadModel() called from outside
CallLoadModel ==
    \E buildThrows \in BOOLEAN :
        /\ transformerModel # Null
        /\ Len(promises) + 1 <= MaxPromises
        /\ \E out \in {LoadModel(transformerModel, promises, buildThrows)} :
               /\ transformerModel' = out.tm
               /\ promises' = out.promises
        /\ UNCHANGED <<rng, suspended>>
        /\ EnsembleUntouched

\* the value predict resolves with, and the arguments it was called with
Prediction(out, prices, days) ==
    [predictedPrices |-> out.predictedPrices, confidence |-> out.confidence,
     fallback |-> out.fallback, prices |-> prices, days |-> days]

\* predict(prices, days) up to its first suspension: with the model loaded
\* it runs to its return; otherwise it calls loadModel() and waits for the
\* promise that call returned
CallPredict(prices, days, buildThrows) ==
    /\ transformerModel # Null
    /\ Len(promises) + (IF transformerModel.isModelLoaded THEN 1 ELSE 2)
           <= MaxPromises
    /\ IF transformerModel.isModelLoaded
       THEN \E out \in {PredictBody(transformerModel, prices, days, rng)} :
               /\ promises' = Append(promises,
                                     Promise("predict", "resolved", 0,
                                             Prediction(out, prices, days)))
               /\ rng' = out.rng
               /\ UNCHANGED <<transformerModel, suspended>>
       ELSE \E loaded \in {LoadModel(transformerModel, promises, buildThrows)} :
               /\ transformerModel' = loaded.tm
               /\ promises' = Append(loaded.promises,
                                     Promise("predict", "pending", 0, Null))
               /\ suspended' = Append(suspended,
                                      [on |-> loaded.returned,
                                       result |-> Len(loaded.promises) + 1,
                                       prices |-> prices, days |-> days])
               /\ UNCHANGED rng
    /\ EnsembleUntouched

\* a microtask: the promise p an async function returned takes the state of
\* the promise it follows
Follow(p) ==
    /\ promises[p].state = "pending"
    /\ promises[p].follows # 0
    /\ promises[promises[p].follows].state # "pending"
    /\ promises' = [promises EXCEPT ![p].state = promises[promises[p].follows].state]
    /\ UNCHANGED <<rng, transformerModel, suspended>>
    /\ EnsembleUntouched

\* a microtask: the k-th waiting predict goes on after its await.  A rejected
\* promise would make the await throw, outside the try block.
ResumePredict(k) ==
    LET frame == suspended[k]
    IN /\ promises[frame.on].state # "pending"
       /\ IF promises[frame.on].state = "rejected"
          THEN /\ promises' = [promises EXCEPT ![frame.result].state = "rejected"]
               /\ UNCHANGED rng
          ELSE \E out \in {PredictBody(transformerModel, frame.prices, frame.days, rng)} :
                  /\ promises' = [promises EXCEPT
                                      ![frame.result].state = "resolved",
                                      ![frame.result].value =
                                          Prediction(out, frame.prices, frame.days)]
                  /\ rng' = out.rng
       /\ suspended' = RemoveAt(suspended, k)
       /\ UNCHANGED transformerModel
       /\ EnsembleUntouched

\* the TransformerModel of predictionModels.ts starts initTransformer() in its
\* constructor: an async function that awaits nothing and catches what it
\* throws, so the promise it returns is resolved
InitTransformer ==
    /\ Len(promises) + 1 <= MaxPromises
    /\ promises' = Append(promises, Promise("initTransformer", "resolved", 0, Null))
    /\ UNCHANGED <<rng, transformerModel, suspended>>
    /\ EnsembleUntouched

PredictCalled ==
    \E prices \in PretrainedSeries, days \in PretrainedDays, buildThrows \in BOOLEAN :
        CallPredict(prices, days, buildThrows)

Microtask ==
    \/ \E p \in 1..Len(promises) : Follow(p)
    \/ \E k \in 1..Len(suspended) : ResumePredict(k)

NextTransformer ==
    \/ NewTransformerModel
    \/ CallLoadModel
    \/ PredictCalled
    \/ InitTransformer
    \/ Microtask

\* no instance yet; the draws of predict start from one state of the generator
InitPretrained == rng = 1 /\ Constructed

SpecTransformer == InitPretrained /\ [][NextTransformer]_vars

\* the event loop runs every microtask that is queued
SpecTransformerFair == SpecTransformer /\ WF_vars(Microtask)

\* One forecast per instance over a long horizon, default models.
ForecastMomentum ==
    \E prices \in MomentumSeries, days \in MomentumDays,
       volatilityFactor \in VolatilityFactors :
        /\ outcome = "none"
        /\ Predict(prices, days, volatilityFactor)

NextMomentum ==
    \/ NewEnsembleModel
    \/ ForecastMomentum
    \/ GetModelContributions

SpecMomentum == Init /\ [][NextMomentum]_vars

\* One forecast per instance, on series that make the models disagree widely.
ForecastExtreme ==
    \E prices \in ExtremeSeries, days \in ExtremeDays,
       volatilityFactor \in VolatilityFactors :
        /\ outcome = "none"
        /\ Predict(prices, days, volatilityFactor)

NextExtreme ==
    \/ NewEnsembleModel
    \/ Configure
    \/ ForecastExtreme
    \/ GetModelContributions

SpecExtreme == Init /\ [][NextExtreme]_vars

\* One forecast per instance with the default models on a flat series,
\* Math.random replaced so that every noise term is zero.
InitFlat == rng = ZeroNoise /\ Constructed

ForecastFlat ==
    \E prices \in FlatSeries, days \in FlatDays,
       volatilityFactor \in FlatVolatilityFactors :
        /\ outcome = "none"
        /\ Predict(prices, days, volatilityFactor)

NextFlat ==
    \/ NewEnsembleModel
    \/ ForecastFlat
    \/ GetModelContributions

SpecFlat == InitFlat /\ [][NextFlat]_vars

\* The useEffect of PredictionSection on [modelParameters, currency], run on
\* the props `section` with the requests `flight` outstanding: it sets
\* useSentimentAnalysis and either starts fetchSentimentImpact, which calls
\* getSentimentPriceImpact for the currency of this render, or resets
\* sentimentImpact to 1.
SectionEffect(section, flight) ==
    IF section.modelParameters # Null
    THEN LET include == section.modelParameters.includeSentiment
         IN [section |-> [section EXCEPT
                              !.useSentimentAnalysis = include,
                              !.sentimentImpact = IF include THEN @ ELSE SCALE],
             inFlight |-> IF include
                          THEN Append(flight, [symbol |-> section.currency])
                          ELSE flight]
    ELSE [section |-> section, inFlight |-> flight]

\* the effect would start a request
StartsRequest(section) ==
    section.modelParameters # Null /\ section.modelParameters.includeSentiment

\* Home.handleParametersChange(parameters): ModelControls hands over a new
\* parameters object, PredictionSection renders with it and its effect runs
HandleParametersChange(includeSentiment) ==
    LET section == [predictionSection EXCEPT
                        !.modelParameters = [includeSentiment |-> includeSentiment]]
        after == SectionEffect(section, inFlight)
    IN /\ StartsRequest(section) => Len(inFlight) < MaxInFlight
       /\ predictionSection' = after.section
       /\ inFlight' = after.inFlight
       /\ UNCHANGED <<models, rng, historicalPrices, callDays, callVf, callSeed,
                      callModels, outcome, modelsRun, modelPredictions, estimates,
                      results, contributions, replayed, rngAfter, dayLocals,
                      contributionModels, priceArray, moduleVars, settled,
                      transformerVars, chartVars>>

\* The useEffect of PredictionChart on [data, currency, timeframe], the data
\* prop not given: it starts fetchDataAndPredict, which clears fetchError and
\* keeps the props of this render, those PredictionSection passes from its
\* props and state `section`, for the generatePredictionData call it makes
\* once the historical prices are there.  `started` counts the
\* fetchDataAndPredict calls of the chart.
ChartEffect(chart, section) ==
    [chart EXCEPT
        !.fetchError = FALSE,
        !.started = @ + 1,
        !.fetches = Append(@, [currency |-> section.currency,
                               useSentimentAnalysis |-> section.useSentimentAnalysis,
                               sentimentImpact |-> section.sentimentImpact])]

\* Home.handleCurrencyChange(currency): a new currency makes PredictionSection
\* render with it and its effect run; the PredictionChart in it, if one is
\* mounted, renders with the new currency and the section's state of that
\* render, and its effect runs
HandleCurrencyChange(currency) ==
    LET section == [predictionSection EXCEPT !.currency = currency]
        after == SectionEffect(section, inFlight)
    IN /\ currency # predictionSection.currency
       /\ StartsRequest(section) => Len(inFlight) < MaxInFlight
       /\ predictionSection' = after.section
       /\ inFlight' = after.inFlight
       /\ IF predictionChart # Null
          THEN /\ predictionChart.started < MaxFetches
               /\ predictionChart' = ChartEffect(predictionChart, section)
          ELSE UNCHANGED predictionChart
       /\ UNCHANGED <<models, rng, historicalPrices, callDays, callVf, callSeed,
                      callModels, outcome, modelsRun, modelPredictions, estimates,
                      results, contributions, replayed, rngAfter, dayLocals,
                      contributionModels, priceArray, moduleVars, settled,
                      transformerVars>>

\* the rest of fetchSentimentImpact once its getSentimentPriceImpact call, the
\* k-th outstanding, resolves on `response`: setSentimentImpact(impact)
SentimentImpactArrives(k, response) ==
    LET symbol == inFlight[k].symbol
        impact == GetSentimentPriceImpact(symbol, response)
    IN /\ predictionSection' = [predictionSection EXCEPT !.sentimentImpact = impact]
       /\ inFlight' = RemoveAt(inFlight, k)
       /\ settled' = [symbol |-> symbol, response |-> response, impact |-> impact]
       /\ UNCHANGED <<models, rng, historicalPrices, callDays, callVf, callSeed,
                      callModels, outcome, modelsRun, modelPredictions, estimates,
                      results, contributions, replayed, rngAfter, dayLocals,
                      contributionModels, priceArray, moduleVars,
                      transformerVars, chartVars>>

\* const historyDays = timeframe === "1d" ? 7 : timeframe === "7d" ? 14 : 30
HistoryDaysOf(timeframe) ==
    IF timeframe = "1d" THEN 7 ELSE IF timeframe = "7d" THEN 14 ELSE 30

\* currency === "BTC" ? 65000 : 3500
MockPrice(currency) == IF currency = "BTC" THEN 65000 ELSE 3500

RECURSIVE MockHistoryLoop(_, _, _, _)
\* the mock data of fetchHistoricalPrices, for (i = days; i >= 0; i--): the
\* price moves by (Math.random() - 0.5) * volatility and is kept above a
\* floor; a second draw gives the volume.  The last price and the generator.
MockHistoryLoop(i, price, symbol, r) ==
    IF i < 0 THEN [currentPrice |-> price, rng |-> r]
    ELSE LET moved == StepPrice(price, TDiv(Noise(r, SCALE \div 2) * Volatility(symbol),
                                            SCALE))
         IN MockHistoryLoop(i - 1,
                            Max(moved, IF symbol = "BTC" THEN 10000 ELSE 500),
                            symbol, NextRng(NextRng(r)))

\* What the CoinGecko request gives: a price list with its volumes, whose last
\* price is taken ("ok"), an empty price list ("empty"), or a failure ("failed")
HistoryResponses == {"ok", "empty", "failed"}

\* fetchHistoricalPrices(symbol, days): the last price of what it resolves
\* with, whether that is empty, and the generator after it
FetchHistoricalPrices(symbol, days, response, r) ==
    CASE response = "ok" -> [empty |-> FALSE, currentPrice |-> BasePrice, rng |-> r]
      [] response = "empty" -> [empty |-> TRUE, currentPrice |-> NaN, rng |-> r]
      [] response = "failed" ->
             [empty |-> FALSE] @@ MockHistoryLoop(days, MockPrice(symbol), symbol, r)

\* PredictionSection mounts the PredictionChart of a timeframe tab: useState
\* initial values, the render's getModelContributions(), the effect
MountPredictionChart(timeframe) ==
    /\ predictionChart = Null
    /\ predictionChart' =
           ChartEffect([timeframe |-> timeframe, fetches |-> <<>>, chartData |-> <<>>,
                        generatedWith |-> Null, fetchError |-> FALSE,
                        started |-> 0],
                       predictionSection)
    /\ models' = ConstructEnsemble
    /\ contributions' = GetContributions(ConstructEnsemble)
    /\ contributionModels' = ConstructEnsemble
    /\ UNCHANGED <<rng, historicalPrices, callDays, callVf, callSeed, callModels,
                   outcome, modelsRun, modelPredictions, estimates, results,
                   replayed, rngAfter, dayLocals, priceArray, moduleVars,
                   sectionVars, transformerVars>>

\* the rest of the k-th outstanding fetchDataAndPredict once
\* fetchHistoricalPrices has resolved: generatePredictionData with the props
\* it kept, from the last price fetched or, the list being empty, from the
\* mock price with fetchError set; setChartData; the render that follows
\* calls getModelContributions()
HistoricalPricesArrive(k, response) ==
    LET fetch == predictionChart.fetches[k]
        historyDays == HistoryDaysOf(predictionChart.timeframe)
    IN /\ \E fetched \in {FetchHistoricalPrices(fetch.currency, historyDays,
                                                 response, rng)} :
              GenerateCall(historyDays,
                           IF fetched.empty THEN MockPrice(fetch.currency)
                           ELSE fetched.currentPrice,
                           fetch.currency, predictionChart.timeframe,
                           fetch.useSentimentAnalysis, fetch.sentimentImpact,
                           fetched.rng)
       /\ predictionChart' = [predictionChart EXCEPT
                                  !.fetches = RemoveAt(@, k),
                                  !.chartData = data',
                                  !.generatedWith = generateArgs',
                                  !.fetchError = @ \/ response = "empty"]
       /\ models' = ConstructEnsemble
       /\ contributions' = GetContributions(ConstructEnsemble)
       /\ contributionModels' = ConstructEnsemble
       /\ UNCHANGED <<sectionVars, transformerVars>>

\* the Try Again button, shown with fetchError: fetchDataAndPredict with the
\* props of the current render
HandleTryAgain ==
    /\ predictionChart # Null
    /\ predictionChart.fetchError
    /\ predictionChart.started < MaxFetches
    /\ predictionChart' = ChartEffect(predictionChart, predictionSection)
    /\ UNCHANGED <<models, rng, historicalPrices, callDays, callVf, callSeed,
                   callModels, outcome, modelsRun, modelPredictions, estimates,
                   results, contributions, replayed, rngAfter, dayLocals,
                   contributionModels, priceArray, moduleVars, sectionVars,
                   transformerVars>>

ParametersChange == \E includeSentiment \in BOOLEAN : HandleParametersChange(includeSentiment)

CurrencyChange == \E currency \in Currencies : HandleCurrencyChange(currency)

ImpactArrives ==
    \E k \in 1..Len(inFlight), response \in Responses : SentimentImpactArrives(k, response)

NextSection ==
    \/ ParametersChange
    \/ CurrencyChange
    \/ ImpactArrives

\* the chart of the tab that is active by default
Mount == \E timeframe \in {"7d"} : MountPredictionChart(timeframe)

ChartParametersChange == predictionChart # Null /\ ParametersChange

ChartCurrencyChange == predictionChart # Null /\ CurrencyChange

\* the news request answered with one positive article
ChartImpactArrives ==
    /\ predictionChart # Null
    /\ \E k \in 1..Len(inFlight),
          response \in {[kind |-> "ok",
                         articles |-> <<[isPositive |-> TRUE, isNegative |-> FALSE]>>]} :
           SentimentImpactArrives(k, response)

HistoryArrives ==
    /\ predictionChart # Null
    /\ \E k \in 1..Len(predictionChart.fetches), response \in HistoryResponses :
           HistoricalPricesArrive(k, response)

\* PredictionSection with the PredictionChart of one tab mounted in it
NextChart ==
    \/ Mount
    \/ ChartParametersChange
    \/ ChartCurrencyChange
    \/ ChartImpactArrives
    \/ HistoryArrives
    \/ HandleTryAgain

\* PredictionSection draws nothing from Math.random
InitSection == rng = 0 /\ Constructed

SpecSection == InitSection /\ [][NextSection]_vars

SpecChart == InitSection /\ [][NextChart]_vars

----------------------------------------------------------------------------
(* Properties *)

Returned == outcome = "returned"
\* the call was rejected at the boundary: it threw before any model ran
Rejected == outcome = "threw" /\ modelsRun = 0
WellFormed == Len(historicalPrices) > 0 /\ callDays > 0
\* the five models' prices for the d-th forecast day (d = 1 is day offset 0)
DayPrices(d) == [k \in 1..Len(modelPredictions) |-> modelPredictions[k].predictions[d]]

\* C1: a call with a positive horizon returns, with exactly `days` forecast
\* points, and each of the five models' paths holds exactly `days` prices.
C1_LengthIsHorizon ==
    (outcome # "none" /\ callDays > 0) =>
        /\ Returned
        /\ Len(results) = callDays
        /\ Len(modelPredictions) = Len(callModels)
        /\ Len(modelPredictions) = 5
        /\ \A k \in 1..Len(modelPredictions) :
               Len(modelPredictions[k].predictions) = callDays

C1_Witness ==
    /\ Returned
    /\ callDays = MaxDays
    /\ Len(historicalPrices) = 30
    /\ Len(results) = MaxDays

\* C2: on every day the combined price is the sum of weight * price over the
\* active models divided by the sum of their weights (rounded toward zero).
C2_WeightedMean ==
    (Returned /\ WellFormed) =>
        \A d \in 1..Len(results) :
            LET num == SeqSum([k \in 1..Len(callModels) |->
                                  callModels[k].confidence * DayPrices(d)[k]])
                den == SeqSum([k \in 1..Len(callModels) |-> callModels[k].confidence])
            IN /\ results[d].predicted * den <= num
               /\ num < (results[d].predicted + 1) * den

C2_Witness ==
    /\ Returned
    /\ WellFormed
    /\ callDays >= 2
    /\ callModels[4].useSentimentAPI
    /\ \E j, k \in 1..5 : DayPrices(2)[j] # DayPrices(2)[k]

\* C3: on every day the combined price lies between the least and the greatest
\* of the five models' prices of that day.
C3_WithinHull ==
    (Returned /\ WellFormed) =>
        \A d \in 1..Len(results) :
            /\ \E k \in 1..5 : DayPrices(d)[k] <= results[d].predicted
            /\ \E k \in 1..5 : results[d].predicted <= DayPrices(d)[k]

C3_Witness ==
    /\ Returned
    /\ WellFormed
    /\ \E d \in 1..Len(results) :
           /\ \E k \in 1..5 : DayPrices(d)[k] < results[d].predicted
           /\ \E k \in 1..5 : results[d].predicted < DayPrices(d)[k]

\* C4 (as claimed): a call with days <= 0 is rejected before any model runs.
C4_RejectsNonPositiveHorizon ==
    (outcome # "none" /\ callDays <= 0) => Rejected

\* C5 (as claimed): a call with an empty series is rejected at the boundary,
\* no model having run.
C5_RejectsEmptySeries ==
    (outcome # "none" /\ Len(historicalPrices) = 0 /\ callDays > 0) => Rejected

\* C6 (as claimed): a series shorter than an estimator's window (2, 5, 10, 14,
\* 30) makes that estimator return its neutral default: trend 0, volatility 0.02.
C6_NeutralBelowWindow ==
    (Returned /\ callDays > 0) =>
        LET n == Len(historicalPrices)
        IN /\ n < 2 => /\ estimates.transformerTrend = 0
                       /\ estimates.transformerVolatility = 200
                       /\ estimates.randomForestVolatility = 200
                       /\ estimates.xgboostVolatility = 200
           /\ n < 5 => estimates.bertTrend = 0
           /\ n < 10 => estimates.xgboostTrend = 0
           /\ n < 14 => estimates.randomForestTrend = 0
           /\ n < 30 => estimates.transformerLongRangeTrend = 0

\* C7: on every day the band is the combined price -/+ the half-width
\* stdDev * 1.96 * (1 + d / horizon) * volatilityFactor, stdDev the square root
\* of the population variance of the five models' prices of that day.
C7_HalfWidth ==
    (Returned /\ WellFormed) =>
        \A d \in 1..Len(results) :
            LET prices == DayPrices(d)
                mean == TDiv(SeqSum(prices), 5)
                variance ==
                    TDiv(SeqSum([k \in 1..5 |-> (prices[k] - mean) * (prices[k] - mean)]), 5)
                stdDev == Sqrt(variance)
                widening == SCALE + TDiv((d - 1) * SCALE, callDays)
                halfWidth ==
                    TDiv(TDiv(TDiv(stdDev * 196, 100) * widening, SCALE) * callVf, 100)
            IN /\ results[d].lowerBound = results[d].predicted - halfWidth
               /\ results[d].upperBound = results[d].predicted + halfWidth

C7_Witness ==
    /\ Returned
    /\ WellFormed
    /\ callDays >= 2
    /\ callVf = 90
    /\ results[2].upperBound - results[2].predicted > 100
    /\ results[2].predicted - results[2].lowerBound > 100

\* C8: the percentages of the weight breakdown sum to 100 (to within one unit
\* of the last place per entry), for the default models and with the sentiment
\* model replaced.
C8_PercentagesSumTo100 ==
    contributions # <<>> =>
        LET total == SeqSum([k \in 1..Len(contributions) |-> contributions[k].weight])
        IN /\ total <= 100 * SCALE
           /\ total > 100 * SCALE - 100 * Len(contributions)

C8_Witness ==
    /\ contributions # <<>>
    /\ models[4].useSentimentAPI
    /\ models[4].sentimentImpact # SCALE

\* C9: for the five default models the breakdown lists the models in order,
\* and each percentage is weight / 1.10 * 100.
C9_DefaultBreakdown ==
    (contributions # <<>> /\ ~models[4].useSentimentAPI) =>
        LET weights == <<45, 25, 20, 10, 10>>
        IN /\ [k \in 1..Len(contributions) |-> contributions[k].name]
                  = <<"Transformer", "Random Forest", "XGBoost", "VADER Sentiment",
                      "BERT NLP">>
           /\ \A k \in 1..5 :
                  /\ contributions[k].weight * 110 <= weights[k] * 100 * SCALE
                  /\ contributions[k].weight * 110 > weights[k] * 100 * SCALE - 110 * 100

C9_Witness ==
    /\ contributions # <<>>
    /\ ~models[4].useSentimentAPI
    /\ contributions[1].weight > 40 * SCALE
    /\ contributions[1].weight < 41 * SCALE

C12_DayFactor ==
    (Returned /\ callDays > 0) =>
        /\ Len(dayLocals) = callDays
        /\ dayLocals[1].dayFactor = SCALE
        /\ \A d \in 1..(callDays - 1) :
               dayLocals[d].dayFactor < dayLocals[d + 1].dayFactor
        /\ LET last == dayLocals[callDays].dayFactor
               exact == (2 * callDays - 1) * SCALE
           IN /\ callDays * last <= exact
              /\ callDays * last > exact - callDays

C12_Witness ==
    /\ Returned
    /\ callDays = MaxDays
    /\ Len(historicalPrices) > 0
    /\ dayLocals[1].dayFactor = SCALE
    /\ dayLocals[MaxDays].dayFactor > dayLocals[2].dayFactor
    /\ dayLocals[MaxDays].dayFactor < 2 * SCALE

\* C13: with the externally supplied multiplier m the sentiment path starts at
\* the last historical price times m and every later value is the value before
\* it times m; over 7 days with m = 1.05 its last value is the base price
\* times 1.05^7 = 1.4071 (to the rounding of the seven steps); the sentiment
\* model draws nothing from Math.random.
C13_ExogenousCompounds ==
    (Returned /\ WellFormed /\ callModels[4].useSentimentAPI) =>
        LET path == modelPredictions[4].predictions
            m == callModels[4].sentimentImpact
            basePrice == historicalPrices[Len(historicalPrices)]
        IN /\ path[1] = TDiv(basePrice * m, SCALE)
           /\ \A i \in 2..callDays : path[i] = TDiv(path[i - 1] * m, SCALE)
           /\ rngAfter[4] = rngAfter[3]
           /\ (callDays = 7 /\ m = SCALE + 500) =>
                  /\ path[7] <= TDiv(basePrice * 14071, SCALE)
                  /\ path[7] >= TDiv(basePrice * 14071, SCALE) - 10

C13_Witness ==
    /\ Returned
    /\ callDays = 7
    /\ Len(historicalPrices) = 10
    /\ callModels[4].useSentimentAPI
    /\ callModels[4].sentimentImpact = SCALE + 500
    /\ modelPredictions[4].predictions[7] > 42000
    /\ rngAfter[3] # callSeed

\* the call of the flat scenario: 30 identical prices, the default models,
\* every noise term zero
FlatCall ==
    /\ Returned
    /\ callSeed = ZeroNoise
    /\ callModels = DefaultModels
    /\ Len(historicalPrices) = 30
    /\ \A i \in 1..30 : historicalPrices[i] = historicalPrices[1]

C15_NeutralOnFetchFailure ==
    (settled # <<>> /\ FetchFailed(settled.response)) => settled.impact = SCALE

\* C16: whatever forecasts and weight breakdowns have been asked of an
\* instance, in either sentiment mode, its five models carry the weights 0.45,
\* 0.25, 0.20, 0.10 and 0.10, and so do the models a forecast ran with and the
\* per-model paths it collected.
C16_WeightsConstant ==
    LET weights == <<45, 25, 20, 10, 10>>
    IN /\ [k \in 1..Len(models) |-> models[k].confidence] = weights
       /\ callModels # <<>> =>
              [k \in 1..Len(callModels) |-> callModels[k].confidence] = weights
       /\ \A k \in 1..Len(modelPredictions) :
              modelPredictions[k].confidence = weights[k]
       /\ contributionModels # <<>> =>
              [k \in 1..Len(contributionModels) |-> contributionModels[k].confidence]
                  = weights

C16_Witness ==
    /\ replayed
    /\ Returned
    /\ contributions # <<>>
    /\ models[4].useSentimentAPI
    /\ ~callModels[4].useSentimentAPI
    /\ models[4].confidence = 10

\* C17 (as claimed): a call with a positive horizon and a non-empty series of
\* positive prices returns, all five models having run; every other call is
\* rejected outright, no model having produced a path.
C17_NoPartialFailure ==
    outcome # "none" =>
        IF /\ callDays > 0
           /\ Len(historicalPrices) > 0
           /\ \A i \in 1..Len(historicalPrices) : historicalPrices[i] > 0
        THEN /\ Returned
             /\ modelsRun = 5
             /\ Len(results) = callDays
        ELSE Rejected

RECURSIVE Advance(_, _)
\* the generator's state n draws after state s
Advance(s, n) == IF n <= 0 THEN s ELSE Advance(NextRng(s), n - 1)

\* the generator's state when the k-th model's predict began
RngBefore(k) == IF k = 1 THEN callSeed ELSE rngAfter[k - 1]

\* the terms the k-th model adds to 1 on day i (0-based): functions of the
\* series' statistics, the day and the model's own i-th draw
DayTerms(k, i) ==
    LET s == Advance(RngBefore(k), i)
        half == SCALE \div 2
    IN CASE k = 1 ->
              TDiv(estimates.transformerTrend * TrendWeight(i)
                   + estimates.transformerLongRangeTrend * (100 - TrendWeight(i)), 100)
              + TDiv(SinWeekTable[(i % 7) + 1] * 2, 1000)
              + TDiv(Tanh(estimates.transformerTrend * 10) * 5, 1000)
              + TDiv(TDiv(Noise(s, half) * estimates.transformerVolatility, SCALE) * 4, 10)
         [] k = 2 ->
              estimates.randomForestTrend
              + TDiv(Noise(s, half) * TDiv(estimates.randomForestVolatility * 8, 10), SCALE)
         [] k = 3 ->
              estimates.xgboostTrend
              + TDiv(SinHalfTable[(i % 14) + 1] * 5, 1000)
              + TDiv(Noise(s, half) * TDiv(estimates.xgboostVolatility * 9, 10), SCALE)
         [] k = 4 ->
              IF callModels[4].useSentimentAPI
              THEN callModels[4].sentimentImpact - SCALE
              ELSE TDiv(Noise(s, (4 * SCALE) \div 10) * 2, 100)
         [] k = 5 ->
              TDiv(estimates.bertTrend * 12, 10) + TDiv(Noise(s, half) * 2, 100)

\* C18: each of the five paths is autoregressive: its first value is the last
\* historical price times (1 + the model's day-0 terms), and every later value
\* is the path's own previous value times (1 + the model's terms of that day);
\* the terms are made of the series' statistics, the day and the model's own
\* draws, never of another model's path.
C18_Autoregressive ==
    (Returned /\ WellFormed) =>
        \A k \in 1..5 :
            LET path == modelPredictions[k].predictions
            IN /\ path[1] = TDiv(historicalPrices[Len(historicalPrices)]
                                      * (SCALE + DayTerms(k, 0)), SCALE)
               /\ \A i \in 1..(callDays - 1) :
                      path[i + 1] = TDiv(path[i] * (SCALE + DayTerms(k, i)), SCALE)

C18_Witness ==
    /\ Returned
    /\ callDays = 7
    /\ Len(historicalPrices) = 30
    /\ ~callModels[4].useSentimentAPI
    /\ \A k \in 1..5 :
           /\ modelPredictions[k].predictions[1] # historicalPrices[30]
           /\ modelPredictions[k].predictions[7] # modelPredictions[k].predictions[1]
    /\ \E j, k \in 1..5 :
           modelPredictions[j].predictions[7] # modelPredictions[k].predictions[7]

\* C19: the disagreement variance of a day is the population variance of the
\* five models' prices of that day about their plain mean, every model counted
\* once whatever its weight: the sum of squared deviations divided by 5.
C19_PopulationVariance ==
    (Returned /\ WellFormed) =>
        \A d \in 1..Len(results) :
            LET x == DayPrices(d)
                mean == TDiv(x[1] + x[2] + x[3] + x[4] + x[5], 5)
                squares == (x[1] - mean) * (x[1] - mean) + (x[2] - mean) * (x[2] - mean)
                           + (x[3] - mean) * (x[3] - mean) + (x[4] - mean) * (x[4] - mean)
                           + (x[5] - mean) * (x[5] - mean)
            IN /\ dayLocals[d].variance = TDiv(squares, 5)
               /\ dayLocals[d].stdDev = Sqrt(dayLocals[d].variance)

C19_Witness ==
    /\ Returned
    /\ WellFormed
    /\ callDays >= 2
    /\ dayLocals[2].variance > 10000
    /\ dayLocals[2].variance % 5 # 0
    /\ results[2].predicted # TDiv(SeqSum(DayPrices(2)), 5)

\* C20: a generatePredictionData call in exogenous sentiment mode runs with
\* the default models except for the sentiment model, which is the one built
\* from the call's multiplier: five models with the default names, order and
\* weights.  Every call not in exogenous mode runs with the default models,
\* and every getModelContributions call maps the default models, whatever
\* calls came before.
C20_SubstitutionIsLocal ==
    /\ generateArgs # <<>> =>
           /\ Len(callModels) = 5
           /\ \A k \in 1..5 :
                  /\ callModels[k].name = DefaultModels[k].name
                  /\ callModels[k].confidence = DefaultModels[k].confidence
                  /\ k # 4 => callModels[k] = DefaultModels[k]
           /\ callModels[4] =
                  IF generateArgs.useSentimentAnalysis
                  THEN NewSentimentModel(TRUE, generateArgs.sentimentImpact)
                  ELSE DefaultModels[4]
    /\ contributionModels # <<>> =>
           /\ contributionModels = DefaultModels
           /\ contributions = GetContributions(DefaultModels)

C20_Witness ==
    /\ generateArgs # <<>>
    /\ generateArgs.useSentimentAnalysis
    /\ generateArgs.sentimentImpact = SCALE + 500
    /\ callModels[4].useSentimentAPI
    /\ Returned
    /\ contributionModels = DefaultModels
    /\ models = DefaultModels

\* C21: after every predict call the array passed in has the length and the
\* elements, in order, it had when the call began, and each model's predict
\* received it that way: all models see the same series.
C21_SeriesUnchanged ==
    outcome # "none" =>
        /\ priceArray.after = historicalPrices
        /\ Len(priceArray.seen) >= modelsRun
        /\ \A k \in 1..Len(priceArray.seen) : priceArray.seen[k] = historicalPrices

C21_Witness ==
    /\ Returned
    /\ Len(historicalPrices) = 30
    /\ callDays = MaxDays
    /\ Len(priceArray.seen) = 5
    /\ priceArray.seen[5] = historicalPrices
    /\ Len(priceArray.after) = 30

\* what the last generatePredictionData call returned and passed to the
\* ensemble, for a history of `past` days: past + 1 historical points whose last
\* is dated today, then the forecast points, one per day of the horizon, and
\* the ensemble called with the historical prices, the horizon and 30 times
\* the currency's constant
GeneratedShape(past) ==
    LET futureDays == IF generateArgs.timeframe = "1d" THEN 1
                      ELSE IF generateArgs.timeframe = "7d" THEN 7 ELSE 30
    IN /\ Len(data) = past + 1 + futureDays
       /\ \A j \in 1..(past + 1) :
              /\ data[j].date = j - (past + 1)
              /\ data[j].actual = historicalPrices[j]
              /\ data[j].predicted = data[j].actual
       /\ \A j \in 1..futureDays :
              /\ data[past + 1 + j].date = j
              /\ data[past + 1 + j].actual = 0
              /\ data[past + 1 + j].predicted = results[j].predicted
              /\ data[past + 1 + j].upperBound = results[j].upperBound
              /\ data[past + 1 + j].lowerBound = results[j].lowerBound
       /\ Len(historicalPrices) = past + 1
       /\ callDays = futureDays
       /\ callVf = 30 * (IF generateArgs.currency = "BTC" THEN 3 ELSE 4)

IsLoadPromise(p) ==
    /\ p <= Len(promises)
    /\ promises[p].kind \in {"modelLoadPromise", "loadModel", "initTransformer"}

\* C24: the model loading always completes.  No promise of the loading is
\* ever rejected, and every promise loadModel returns is resolved in the end,
\* whether the build of the model threw or not.
C24_LoadAlwaysCompletes ==
    /\ [](\A p \in 1..MaxPromises : IsLoadPromise(p) => promises[p].state # "rejected")
    /\ \A p \in 1..MaxPromises :
           [](IsLoadPromise(p) => <>(IsLoadPromise(p) /\ promises[p].state = "resolved"))

C24_Witness ==
    /\ transformerModel # Null
    /\ ~transformerModel.model
    /\ ~transformerModel.isModelLoaded
    /\ transformerModel.builds = 1
    /\ Len(promises) >= 3
    /\ promises[2].kind = "loadModel" /\ promises[2].state = "resolved"
    /\ promises[3].kind = "loadModel" /\ promises[3].state = "resolved"

\* C25: with volatilityFactor >= 0 every returned point has
\* lowerBound <= predicted <= upperBound, and the two bounds are equally far
\* from the predicted price.
C25_BandAroundPrediction ==
    (Returned /\ WellFormed /\ callVf >= 0) =>
        \A d \in 1..Len(results) :
            /\ results[d].lowerBound <= results[d].predicted
            /\ results[d].predicted <= results[d].upperBound
            /\ results[d].upperBound - results[d].predicted
                   = results[d].predicted - results[d].lowerBound

C25_Witness ==
    /\ Returned
    /\ WellFormed
    /\ callVf = 90
    /\ Len(results) = MaxDays
    /\ \A d \in 1..MaxDays :
           /\ results[d].lowerBound < results[d].predicted
           /\ results[d].predicted < results[d].upperBound
           /\ results[d].upperBound - results[d].predicted
                  = results[d].predicted - results[d].lowerBound

\* sentiment analysis is switched off: the parameters say includeSentiment false
SwitchedOff ==
    /\ predictionSection.modelParameters # Null
    /\ ~predictionSection.modelParameters.includeSentiment

\* C26 (as claimed): while sentiment analysis is switched off the stored
\* sentimentImpact is the neutral 1, whatever responses arrive after the
\* switch-off.
C26_NeutralWhileOff ==
    SwitchedOff => predictionSection.sentimentImpact = SCALE

\* C27 (as claimed): with sentiment analysis enabled and no request
\* outstanding, the stored sentimentImpact is one fetched for the currency
\* now selected: the request that settled last, whose impact is stored, was
\* made for that currency.
C27_ImpactOfSelectedCurrency ==
    (/\ predictionSection.modelParameters # Null
     /\ predictionSection.modelParameters.includeSentiment
     /\ inFlight = <<>>
     /\ settled # Null)
        => /\ predictionSection.sentimentImpact = settled.impact
           /\ settled.symbol = predictionSection.currency

\* C28 (as claimed): once no fetchDataAndPredict call is outstanding, the
\* forecast in chartData was generated with the useSentimentAnalysis and the
\* sentimentImpact the chart now receives from PredictionSection.
C28_ChartReflectsSentiment ==
    (/\ predictionChart # Null
     /\ predictionChart.fetches = <<>>
     /\ predictionChart.generatedWith # Null)
        => /\ predictionChart.generatedWith.useSentimentAnalysis
                  = predictionSection.useSentimentAnalysis
           /\ predictionChart.generatedWith.sentimentImpact
                  = predictionSection.sentimentImpact

\* C29 (as claimed): no promise returned by predict of transformerModel.ts is
\* rejected, and each one resolved holds exactly `days` prices, with
\* confidence 0.7 if the model was not available and a confidence within
\* [0.1, 0.95] otherwise.
C29_PredictResolvesAsStated ==
    \A p \in 1..Len(promises) :
        promises[p].kind = "predict" =>
            /\ promises[p].state # "rejected"
            /\ promises[p].state = "resolved" =>
                   /\ Len(promises[p].value.predictedPrices) = promises[p].value.days
                   /\ IF promises[p].value.fallback
                      THEN promises[p].value.confidence = 7000
                      ELSE /\ promises[p].value.confidence # NaN
                           /\ promises[p].value.confidence >= 1000
                           /\ promises[p].value.confidence <= 9500

\* the promises the loadModel calls of the instance have returned
LoadModelPromises == {p \in 1..Len(promises) : promises[p].kind = "loadModel"}

====
